---- MODULE Spec2Model ----
(***************************************************************************)
(* A model of rgeo (offline reverse geocoding on top of an s2 shape       *)
(* index): the feature codec of features.go and the query engine of       *)
(* rgeo.go.                                                                *)
(*                                                                         *)
(* Byte streams are sequences of integers 0..255.  Strings are sequences   *)
(* of bytes.  Angles are fixed-point integers, AngleScale units per        *)
(* radian; chord angles (squared chord lengths) are fixed-point integers,  *)
(* 4*AngleScale^2 units per unit of squared length.                        *)
(***************************************************************************)
EXTENDS Integers, Sequences, FiniteSets, TLC

VARIABLES
    fc,        \* codec: the FeatureCollection handed to Encode
    written,   \* codec: the bytes Encode wrote, and the offset at which each record ends
    buf,       \* codec: the byte stream LoadEncoded reads
    damage,    \* codec: what happened to the stream after it was written
    loaded,    \* codec: what LoadEncoded returned, or NotLoaded
    rgeo,      \* engine: the Rgeo value (index, makeEdgeQuery's captured limit)
    snapArgs,  \* engine: the most recent snapping distance call (New, Earth or Custom) and its arguments
    builds,    \* engine: number of explicit Build calls so far
    lastQ,     \* engine: the most recent query and what it returned
    pc,        \* concurrent callers: where each goroutine stands in its query
    call,      \* concurrent callers: the query each goroutine is running
    out,       \* concurrent callers: the result each goroutine holds so far
    edgeQ,     \* concurrent callers: the s2.EdgeQuery objects made by makeEdgeQuery
    feature,   \* conversion: the GeoJSON feature (Geometry, Properties) to convert
    converted, \* conversion: what polygonFromGeometry returned
    ringLoop,  \* conversion: a loopFromRing call and the loop it returned
    extracted, \* conversion: what getLocationStrings returned
    receiver,  \* decoding: the Feature that Decode is called on
    decoded    \* decoding: the error Decode returned

codecVars == <<fc, written, buf, damage, loaded>>
concVars == <<pc, call, out, edgeQ>>
geoVars == <<rgeo, snapArgs, builds, lastQ, pc, call, out, edgeQ>>
auxVars == <<feature, converted, ringLoop, extracted, receiver, decoded>>
vars ==
    <<fc, written, buf, damage, loaded, rgeo, snapArgs, builds, lastQ, pc, call, out, edgeQ,
      feature, converted, ringLoop, extracted, receiver, decoded>>

\* ------------------------------------------------------------------------
\* Location (rgeo.go, type Location) and its JSON tags
\* ------------------------------------------------------------------------

FieldOrder ==
    << "Country", "CountryLong", "CountryCode2", "CountryCode3", "Continent",
       "Region", "SubRegion", "Province", "ProvinceCode", "City" >>

Fields == { FieldOrder[i] : i \in 1..Len(FieldOrder) }

\* The json tag of each field, as ASCII bytes.
JsonKey(f) ==
    CASE f = "Country"      -> <<99,111,117,110,116,114,121>>
      [] f = "CountryLong"  -> <<99,111,117,110,116,114,121,95,108,111,110,103>>
      [] f = "CountryCode2" -> <<99,111,117,110,116,114,121,95,99,111,100,101,95,50>>
      [] f = "CountryCode3" -> <<99,111,117,110,116,114,121,95,99,111,100,101,95,51>>
      [] f = "Continent"    -> <<99,111,110,116,105,110,101,110,116>>
      [] f = "Region"       -> <<114,101,103,105,111,110>>
      [] f = "SubRegion"    -> <<115,117,98,114,101,103,105,111,110>>
      [] f = "Province"     -> <<112,114,111,118,105,110,99,101>>
      [] f = "ProvinceCode" -> <<112,114,111,118,105,110,99,101,95,99,111,100,101>>
      [] f = "City"         -> <<99,105,116,121>>

\* Location{}: every field the empty string.
EmptyBytesLocation == [f \in Fields |-> <<>>]

\* ------------------------------------------------------------------------
\* encoding/json as used by Feature.Encode / Feature.Decode
\* ------------------------------------------------------------------------

HexDigit(n) == IF n < 10 THEN 48 + n ELSE 87 + n

\* A variant that writes every byte of a string as it is.
EscapeByte_Raw(c) == <<c>>

\* One byte of a Go string as json.Marshal writes it (HTML escaping on):
\* quote and backslash get a backslash, control characters and < > & become
\* \u00xx, a byte that cannot occur in UTF-8 becomes the escape of U+FFFD, the rest is raw.
EscapeByte(c) ==
    IF c = 34 \/ c = 92 THEN <<92, c>>
    ELSE IF c = 10 THEN <<92, 110>>
    ELSE IF c = 13 THEN <<92, 114>>
    ELSE IF c = 9 THEN <<92, 116>>
    ELSE IF c < 32 \/ c \in {38, 60, 62}
         THEN <<92, 117, 48, 48, HexDigit(c \div 16), HexDigit(c % 16)>>
    ELSE IF c >= 245 THEN <<92, 117, 102, 102, 102, 100>>
    ELSE <<c>>

RECURSIVE EscapeFrom(_, _)
EscapeFrom(s, i) ==
    IF i > Len(s) THEN <<>> ELSE EscapeByte(s[i]) \o EscapeFrom(s, i + 1)

\* A JSON string literal.
EncodeString(s) == <<34>> \o EscapeFrom(s, 1) \o <<34>>

\* "key":"value" for the i-th field and the non-empty fields after it, comma separated
\* (omitempty drops the empty ones).
RECURSIVE MarshalFields(_, _, _)
MarshalFields(loc, i, first) ==
    IF i > Len(FieldOrder) THEN <<>>
    ELSE LET f == FieldOrder[i] IN
         IF loc[f] = <<>> THEN MarshalFields(loc, i + 1, first)
         ELSE (IF first THEN <<>> ELSE <<44>>)
              \o EncodeString(JsonKey(f)) \o <<58>> \o EncodeString(loc[f])
              \o MarshalFields(loc, i + 1, FALSE)

\* json.Marshal(f.Location)
JsonMarshal(loc) == <<123>> \o MarshalFields(loc, 1, TRUE) \o <<125>>

HexVal(c) ==
    IF c >= 48 /\ c <= 57 THEN c - 48
    ELSE IF c >= 97 /\ c <= 102 THEN c - 87
    ELSE IF c >= 65 /\ c <= 70 THEN c - 55
    ELSE -1

\* The UTF-8 bytes of a code point below 65536; a surrogate half decodes to U+FFFD.
Utf8(cp) ==
    IF cp < 128 THEN <<cp>>
    ELSE IF cp < 2048 THEN <<192 + (cp \div 64), 128 + (cp % 64)>>
    ELSE IF cp >= 55296 /\ cp <= 57343 THEN <<239, 191, 189>>
    ELSE <<224 + (cp \div 4096), 128 + ((cp \div 64) % 64), 128 + (cp % 64)>>

\* The character an escape letter stands for, or -1.
Unescape(e) ==
    CASE e = 34 -> 34 [] e = 92 -> 92 [] e = 47 -> 47
      [] e = 98 -> 8 [] e = 102 -> 12 [] e = 110 -> 10 [] e = 114 -> 13 [] e = 116 -> 9
      [] OTHER -> -1

\* Scans a string literal's content from b[i] (after the opening quote) to its closing
\* quote: [ok, val, next].
RECURSIVE ScanString(_, _, _)
ScanString(b, i, acc) ==
    IF i > Len(b) THEN [ok |-> FALSE, val |-> <<>>, next |-> i]
    ELSE LET c == b[i] IN
         IF c = 34 THEN [ok |-> TRUE, val |-> acc, next |-> i + 1]
         ELSE IF c < 32 THEN [ok |-> FALSE, val |-> <<>>, next |-> i]
         ELSE IF c = 92 THEN
              IF i + 1 > Len(b) THEN [ok |-> FALSE, val |-> <<>>, next |-> i]
              ELSE IF b[i + 1] = 117 THEN
                   IF i + 5 > Len(b)
                      \/ \E k \in 2..5 : HexVal(b[i + k]) < 0
                   THEN [ok |-> FALSE, val |-> <<>>, next |-> i]
                   ELSE ScanString(b, i + 6,
                            acc \o Utf8(4096 * HexVal(b[i + 2]) + 256 * HexVal(b[i + 3])
                                        + 16 * HexVal(b[i + 4]) + HexVal(b[i + 5])))
              ELSE IF Unescape(b[i + 1]) < 0
                   THEN [ok |-> FALSE, val |-> <<>>, next |-> i]
                   ELSE ScanString(b, i + 2, Append(acc, Unescape(b[i + 1])))
         ELSE IF c >= 245 THEN ScanString(b, i + 1, acc \o <<239, 191, 189>>)
         ELSE ScanString(b, i + 1, Append(acc, c))

\* The members of an object, from the last step to the first.  acc holds the members
\* read so far, k and v are what ScanString returned for a key and for its value.
RECURSIVE MemberEnd(_, _, _, _)

\* After a key: a colon and the value's opening quote are expected at k.next.
MemberValue(b, acc, k) ==
    IF ~k.ok \/ k.next + 1 > Len(b) \/ b[k.next] # 58 \/ b[k.next + 1] # 34
    THEN [ok |-> FALSE, pairs |-> <<>>, next |-> k.next]
    ELSE MemberEnd(b, acc, k.val, ScanString(b, k.next + 2, <<>>))

\* A member from b[i]: the key's opening quote is expected there.
ParsePairs(b, i, acc) ==
    IF i > Len(b) \/ b[i] # 34 THEN [ok |-> FALSE, pairs |-> <<>>, next |-> i]
    ELSE MemberValue(b, acc, ScanString(b, i + 1, <<>>))

\* After a value: a comma and the next member, or the closing brace.
MemberEnd(b, acc, key, v) ==
    IF ~v.ok \/ v.next > Len(b) THEN [ok |-> FALSE, pairs |-> <<>>, next |-> v.next]
    ELSE IF b[v.next] = 44 THEN ParsePairs(b, v.next + 1, Append(acc, <<key, v.val>>))
    ELSE IF b[v.next] = 125
         THEN [ok |-> TRUE, pairs |-> Append(acc, <<key, v.val>>), next |-> v.next + 1]
    ELSE [ok |-> FALSE, pairs |-> <<>>, next |-> v.next]

\* The members, which must end where the input ends.
WholeInput(b, p) == [ok |-> p.ok /\ p.next = Len(b) + 1, pairs |-> p.pairs]

\* The whole input as one JSON object of string members: [ok, pairs].
ParseObject(b) ==
    IF Len(b) < 2 \/ b[1] # 123 THEN [ok |-> FALSE, pairs |-> <<>>]
    ELSE IF b[2] = 125 THEN [ok |-> Len(b) = 2, pairs |-> <<>>]
    ELSE WholeInput(b, ParsePairs(b, 2, <<>>))

\* Stores the members whose key is a field's tag, in input order; a field no member
\* names keeps the value it had.
RECURSIVE StorePairs(_, _, _)
StorePairs(loc, pairs, i) ==
    IF i > Len(pairs) THEN loc
    ELSE StorePairs([f \in Fields |-> IF JsonKey(f) = pairs[i][1] THEN pairs[i][2] ELSE loc[f]],
                    pairs, i + 1)

\* The decoding after the syntax check.
Unmarshalled(p, loc) ==
    IF ~p.ok THEN [err |-> "SyntaxError", loc |-> loc]
    ELSE [err |-> "nil", loc |-> StorePairs(loc, p.pairs, 1)]

\* json.Unmarshal(locBuf, &f.Location): [err, loc].  The input is validated whole
\* before anything is stored.
JsonUnmarshal(b, loc) == Unmarshalled(ParseObject(b), loc)

\* ------------------------------------------------------------------------
\* s2.Polygon as the codec sees it: loops, each with a vertex count and an
\* orientation (origin inside or not)
\* ------------------------------------------------------------------------

EncodingVersion == 1

\* One loop's bytes: vertex count, one byte per vertex, originInside.
EncodeLoop(l) == <<l.nv>> \o [k \in 1..l.nv |-> k] \o <<IF l.originInside THEN 1 ELSE 0>>

RECURSIVE EncodeLoops(_, _)
EncodeLoops(p, i) ==
    IF i > Len(p) THEN <<>> ELSE EncodeLoop(p[i]) \o EncodeLoops(p, i + 1)

\* f.Polygon.Encode(polyBuf): version, loop count, the loops.
PolygonEncode(p) == <<EncodingVersion, Len(p)>> \o EncodeLoops(p, 1)

\* Reads n loops from b[i]: [err, loops].  The decoder's reads past the end of the
\* buffer leave io.EOF in its err field.
RECURSIVE DecodeLoops(_, _, _, _)
DecodeLoops(b, i, n, acc) ==
    IF n = 0 THEN [err |-> "nil", loops |-> acc]
    ELSE IF i > Len(b) \/ i + b[i] + 1 > Len(b) THEN [err |-> "EOF", loops |-> acc]
    ELSE DecodeLoops(b, i + b[i] + 2, n - 1,
             Append(acc, [nv |-> b[i], originInside |-> b[i + b[i] + 1] # 0]))

DecodedPolygon(d) == [err |-> d.err, poly |-> d.loops]

\* f.Polygon.Decode(bytes.NewReader(polyBuf)): [err, poly].  A missing version byte
\* reads as version 0, which is unsupported.
PolygonDecode(b) ==
    IF Len(b) = 0 \/ b[1] # EncodingVersion THEN [err |-> "unsupported version", poly |-> <<>>]
    ELSE IF Len(b) < 2 THEN [err |-> "EOF", poly |-> <<>>]
    ELSE DecodedPolygon(DecodeLoops(b, 3, b[2], <<>>))

\* ------------------------------------------------------------------------
\* io and encoding/binary
\* ------------------------------------------------------------------------

\* binary.Write(w, binary.LittleEndian, uint32(n))
PutUint32(n) ==
    <<n % 256, (n \div 256) % 256, (n \div 65536) % 256, (n \div 16777216) % 256>>

Uint32(b) == b[1] + 256 * b[2] + 65536 * b[3] + 16777216 * b[4]

\* io.ReadFull(r, make([]byte, n)) on the stream b with pos bytes consumed:
\* io.EOF when nothing could be read, io.ErrUnexpectedEOF when only a part could.
ReadFull(b, pos, n) ==
    LET avail == Len(b) - pos IN
    IF n = 0 THEN [err |-> "nil", data |-> <<>>, pos |-> pos]
    ELSE IF avail >= n THEN [err |-> "nil", data |-> SubSeq(b, pos + 1, pos + n), pos |-> pos + n]
    ELSE IF avail = 0 THEN [err |-> "EOF", data |-> <<>>, pos |-> pos]
    ELSE [err |-> "ErrUnexpectedEOF", data |-> <<>>, pos |-> Len(b)]

\* binary.Read(r, binary.LittleEndian, &l): [err, val, pos]
Uint32Read(r) ==
    [err |-> r.err, val |-> IF r.err = "nil" THEN Uint32(r.data) ELSE 0, pos |-> r.pos]

ReadUint32(b, pos) == Uint32Read(ReadFull(b, pos, 4))

\* ------------------------------------------------------------------------
\* features.go
\* ------------------------------------------------------------------------

NoError == [msg |-> "nil", cause |-> "nil"]

\* fmt.Errorf(msg + ": %w", cause)
Wrap(msg, cause) == [msg |-> msg, cause |-> cause]

\* errors.Is(err, io.EOF) for an error of Feature.Decode
IsEOF(e) == e.cause = "EOF"

\* A variant that passes io.EOF through unchanged.
unexpectedEOF_Unconverted(err) == err

unexpectedEOF(err) == IF err = "EOF" THEN "ErrUnexpectedEOF" ELSE err

\* Feature.Encode: the bytes written to w.
FeatureEncode(f) ==
    LET locBuf == JsonMarshal(f.Location)
        polyBuf == PolygonEncode(f.Polygon)
    IN PutUint32(Len(locBuf)) \o locBuf \o PutUint32(Len(polyBuf)) \o polyBuf

\* FeatureCollection.Encode: the features' encodings, in order.
RECURSIVE FeatureCollectionEncode(_, _)
FeatureCollectionEncode(c, i) ==
    IF i > Len(c) THEN <<>> ELSE FeatureEncode(c[i]) \o FeatureCollectionEncode(c, i + 1)

\* var f Feature
ZeroFeature == [Location |-> EmptyBytesLocation, Polygon |-> <<>>]

\* Feature.Decode, the steps of its body from the last to the first.  Each takes the
\* receiver f, the stream b and the result of the read or decode before it.

\* f.Polygon = &s2.Polygon{}; f.Polygon.Decode(...)
DecodePolygon(f, pos, p) ==
    IF p.err # "nil"
    THEN [err |-> Wrap("bad polygon in geometry", unexpectedEOF(p.err)),
          f |-> [f EXCEPT !.Polygon = p.poly], pos |-> pos]
    ELSE [err |-> NoError, f |-> [f EXCEPT !.Polygon = p.poly], pos |-> pos]

\* io.ReadFull(r, polyBuf)
DecodePolygonBytes(f, polyBuf) ==
    IF polyBuf.err # "nil"
    THEN [err |-> Wrap("read polygon", unexpectedEOF(polyBuf.err)), f |-> f, pos |-> polyBuf.pos]
    ELSE DecodePolygon(f, polyBuf.pos, PolygonDecode(polyBuf.data))

\* binary.Read(r, binary.LittleEndian, &l) for the polygon
DecodePolygonLength(f, b, l) ==
    IF l.err # "nil"
    THEN [err |-> Wrap("read polygon length", unexpectedEOF(l.err)), f |-> f, pos |-> l.pos]
    ELSE DecodePolygonBytes(f, ReadFull(b, l.pos, l.val))

\* json.Unmarshal(locBuf, &f.Location)
DecodeLocation(f, b, pos, u) ==
    IF u.err # "nil"
    THEN [err |-> Wrap("decode location", unexpectedEOF(u.err)),
          f |-> [f EXCEPT !.Location = u.loc], pos |-> pos]
    ELSE DecodePolygonLength([f EXCEPT !.Location = u.loc], b, ReadUint32(b, pos))

\* io.ReadFull(r, locBuf)
DecodeLocationBytes(f, b, locBuf) ==
    IF locBuf.err # "nil"
    THEN [err |-> Wrap("read location", unexpectedEOF(locBuf.err)), f |-> f, pos |-> locBuf.pos]
    ELSE DecodeLocation(f, b, locBuf.pos, JsonUnmarshal(locBuf.data, f.Location))

\* binary.Read(r, binary.LittleEndian, &l) for the location
DecodeLocationLength(f, b, l) ==
    IF l.err # "nil"
    THEN [err |-> Wrap("read location length", l.err), f |-> f, pos |-> l.pos]
    ELSE DecodeLocationBytes(f, b, ReadFull(b, l.pos, l.val))

\* Feature.Decode on receiver f, reading the stream b from pos: [err, f, pos].
FeatureDecode(f, b, pos) == DecodeLocationLength(f, b, ReadUint32(b, pos))

\* return result, nil
LoadSuccess(result) == [features |-> result, err |-> "nil", cause |-> NoError, index |-> -1]

\* A variant that returns the features decoded before the failure.
DecodeFailure_KeepsResult(result, i, err) ==
    [features |-> result, err |-> "decode feature", cause |-> err, index |-> i]

\* return nil, fmt.Errorf("decode feature %d: %w", i, err)
DecodeFailure(result, i, err) ==
    [features |-> <<>>, err |-> "decode feature", cause |-> err, index |-> i]

\* The loop of LoadEncoded at record i, result holding the records before it and d
\* what f.Decode(r) returned for record i.
RECURSIVE LoadStep(_, _, _, _)
LoadStep(b, i, result, d) ==
    IF d.err # NoError THEN
        IF IsEOF(d.err) THEN LoadSuccess(result)
        ELSE DecodeFailure(result, i, d.err)
    ELSE LoadStep(b, i + 1, Append(result, d.f), FeatureDecode(ZeroFeature, b, d.pos))

LoadEncoded(b) == LoadStep(b, 0, <<>>, FeatureDecode(ZeroFeature, b, 0))

\* ------------------------------------------------------------------------
\* The codec's inputs
\* ------------------------------------------------------------------------

\* Longest collection of the small features that is encoded and loaded.
MaxFeatures == 2

\* Field values: "Z", a value with a quote and a backslash in it, a value json.Marshal
\* escapes as <, and a byte string that is not valid UTF-8.
StrVals == { <<90>>, <<90, 34, 92>>, <<60>>, <<255>> }

LocWith(S, v) == [f \in Fields |-> IF f \in S THEN v ELSE <<>>]

\* All ten fields set, each to its own letter.
DistinctLocation == [f \in Fields |-> <<64 + CHOOSE i \in 1..Len(FieldOrder) : FieldOrder[i] = f>>]

Locations ==
    { LocWith({f}, v) : f \in Fields, v \in StrVals } \cup { EmptyBytesLocation, DistinctLocation }

Triangle == [nv |-> 3, originInside |-> FALSE]
Hole == [nv |-> 4, originInside |-> TRUE]

Polygons == { <<>>, <<Triangle>>, <<Triangle, Hole>> }

Features == [Location : Locations, Polygon : Polygons]

SmallFeatures ==
    { [Location |-> LocWith({"Country"}, <<90>>), Polygon |-> <<Triangle>>],
      [Location |-> EmptyBytesLocation, Polygon |-> <<>>] }

RECURSIVE SeqsUpTo(_, _)
SeqsUpTo(S, n) ==
    IF n = 0 THEN { <<>> }
    ELSE LET shorter == SeqsUpTo(S, n - 1) IN
         shorter \cup { Append(q, x) : q \in { r \in shorter : Len(r) = n - 1 }, x \in S }

FeatureCollections == { <<f>> : f \in Features } \cup SeqsUpTo(SmallFeatures, MaxFeatures)

\* What a damaged byte is replaced by: NUL, a quote, "Z", a closing brace.
CorruptBytes == { 0, 34, 90, 125 }

NotLoaded == [features |-> <<>>, err |-> "not called", cause |-> NoError, index |-> -2]

\* The engine's variables while the codec runs.
\* Nothing is being converted or decoded.
AuxIdle ==
    /\ feature = "none" /\ converted = "none" /\ ringLoop = "none" /\ extracted = "none"
    /\ receiver = "none" /\ decoded = "none"

GeoIdle ==
    /\ rgeo = "none" /\ snapArgs = "none" /\ builds = 0 /\ lastQ = "none"
    /\ pc = "none" /\ call = "none" /\ out = "none" /\ edgeQ = "none"

\* ------------------------------------------------------------------------
\* The codec as a state machine: write a collection, damage the stream or
\* not, load it
\* ------------------------------------------------------------------------

InitCodec ==
    /\ fc \in FeatureCollections
    /\ written = [bytes |-> <<>>, ends |-> <<>>]
    /\ buf = <<>>
    /\ damage = "unwritten"
    /\ loaded = NotLoaded
    /\ GeoIdle
    /\ AuxIdle

\* fc.Encode(w)
Encode ==
    /\ damage = "unwritten"
    /\ buf' = FeatureCollectionEncode(fc, 1)
    /\ written' = [bytes |-> buf',
                   ends |-> [j \in 1..Len(fc) |-> Len(FeatureCollectionEncode(SubSeq(fc, 1, j), 1))]]
    /\ damage' = "intact"
    /\ UNCHANGED <<fc, loaded, geoVars, auxVars>>

\* The stream ends after its first k bytes.
Truncate ==
    /\ damage = "intact"
    /\ loaded = NotLoaded
    /\ \E k \in 0..(Len(buf) - 1) : buf' = SubSeq(buf, 1, k)
    /\ damage' = "truncated"
    /\ UNCHANGED <<fc, written, loaded, geoVars, auxVars>>

\* One byte of the stream is replaced.
Corrupt ==
    /\ damage = "intact"
    /\ loaded = NotLoaded
    /\ \E i \in 1..Len(buf), c \in CorruptBytes :
          /\ c # buf[i]
          /\ buf' = [buf EXCEPT ![i] = c]
    /\ damage' = "corrupted"
    /\ UNCHANGED <<fc, written, loaded, geoVars, auxVars>>

\* LoadEncoded(r)
Load ==
    /\ damage # "unwritten"
    /\ loaded = NotLoaded
    /\ loaded' = LoadEncoded(buf)
    /\ UNCHANGED <<fc, written, buf, damage, geoVars, auxVars>>

NextCodec == Encode \/ Truncate \/ Corrupt \/ Load

SpecCodec == InitCodec /\ [][NextCodec]_vars

\* ------------------------------------------------------------------------
\* Claims about the codec (checked under SpecCodec)
\* ------------------------------------------------------------------------

\* Offset in the written stream at which record j ends (0 for j = 0).
RecordEnd(j) == IF j = 0 THEN 0 ELSE written.ends[j]

RecordBoundaries == { RecordEnd(j) : j \in 0..Len(fc) }

\* Number of records that lie whole within the first n bytes of the written stream.
CompleteRecords(n) == Cardinality({ j \in 1..Len(fc) : RecordEnd(j) <= n })

WasLoaded == loaded.err # "not called"

\* C1: LoadEncoded ends cleanly exactly when the stream of well-formed records is
\* exhausted at a record boundary (the empty stream included), returning the records
\* before it; a stream that ends anywhere inside a record yields an error and no
\* collection.
C1_CleanEndOnlyAtRecordBoundary ==
    (WasLoaded /\ damage \in {"intact", "truncated"}) =>
        IF Len(buf) \in RecordBoundaries
        THEN loaded.err = "nil" /\ Len(loaded.features) = CompleteRecords(Len(buf))
        ELSE loaded.err = "decode feature" /\ loaded.features = <<>>

\* The stream ends right after the location bytes of its second record, where the
\* polygon's length header would start, and LoadEncoded reported an error.
C1_Witness ==
    /\ WasLoaded
    /\ damage = "truncated"
    /\ Len(fc) = 2
    /\ Len(buf) = RecordEnd(1) + 4 + Len(JsonMarshal(fc[2].Location))
    /\ loaded.err = "decode feature"
    /\ loaded.cause = Wrap("read polygon length", "ErrUnexpectedEOF")

AsciiOnly(loc) == \A f \in Fields : \A i \in 1..Len(loc[f]) : loc[f][i] < 128

SamePolygon(p, q) ==
    /\ Len(p) = Len(q)
    /\ \A k \in 1..Len(p) : p[k].nv = q[k].nv /\ p[k].originInside = q[k].originInside

RECURSIVE AcceptedRecords(_, _, _)
AcceptedRecords(b, n, d) ==
    IF d.err = NoError
    THEN AcceptedRecords(b, n + 1, FeatureDecode(ZeroFeature, b, d.pos))
    ELSE [n |-> n, err |-> d.err]

FirstRejected(b) == AcceptedRecords(b, 0, FeatureDecode(ZeroFeature, b, 0))

\* Offset of the first byte at which the stream differs from what was written.
DamageOffset ==
    CHOOSE i \in 1..Len(buf) : buf[i] # written.bytes[i]

\* C3: when Feature.Decode rejects the record at position i (a truncated or malformed
\* record, not a clean end of stream), LoadEncoded returns an error carrying index i
\* and no features, whatever records 0..i-1 held; for a stream cut inside a record
\* i is the number of whole records before the cut, and a damaged byte never makes an
\* earlier record the one reported.
C3_ErrorNamesRecordAndDropsAll ==
    WasLoaded =>
        /\ ~IsEOF(FirstRejected(buf).err) =>
              /\ loaded.err = "decode feature"
              /\ loaded.index = FirstRejected(buf).n
              /\ loaded.features = <<>>
        /\ (damage = "truncated" /\ Len(buf) \notin RecordBoundaries) =>
              /\ loaded.err = "decode feature"
              /\ loaded.index = CompleteRecords(Len(buf))
        /\ loaded.err = "decode feature" => loaded.features = <<>>
        /\ (damage = "corrupted" /\ loaded.err = "decode feature") =>
              loaded.index >= CompleteRecords(DamageOffset - 1)

\* The second record of a stream is malformed: the first decoded, and the error names
\* index 1.
C3_Witness ==
    /\ WasLoaded
    /\ damage = "corrupted"
    /\ DamageOffset > RecordEnd(1)
    /\ loaded.err = "decode feature"
    /\ loaded.index = 1
    /\ FeatureDecode(ZeroFeature, buf, 0).err = NoError

\* ------------------------------------------------------------------------
\* Fixed-point angles: math.Sin, s1.Angle, s1.ChordAngle
\* ------------------------------------------------------------------------

\* Units per radian of an angle (float64 radians in the code).
AngleScale == 10000

\* math.Pi in angle units.
PiAngle == 31416

\* S * sin(x / S) for 0 <= x / S <= pi / 2, by the sine's power series.
SinSeries(x, S) ==
    LET x2 == (x * x) \div S
        t3 == (x * x2) \div (6 * S)
        t5 == (t3 * x2) \div (20 * S)
        t7 == (t5 * x2) \div (42 * S)
        t9 == (t7 * x2) \div (72 * S)
    IN x - t3 + t5 - t7 + t9

\* The sine of an angle reduced to the first turn.
SinReduced(r) ==
    IF 2 * r <= PiAngle THEN SinSeries(r, AngleScale)
    ELSE IF r <= PiAngle THEN SinSeries(PiAngle - r, AngleScale)
    ELSE IF 2 * r <= 3 * PiAngle THEN 0 - SinSeries(r - PiAngle, AngleScale)
    ELSE 0 - SinSeries(2 * PiAngle - r, AngleScale)

\* math.Sin(x), x >= 0 in angle units, the result in units of 1 / AngleScale.
Sin(x) == SinReduced(x % (2 * PiAngle))

\* The float64 quotient d / radius, as an angle.
Quotient(d, radius) == (d * AngleScale) \div radius

NegativeChordAngle == -1

\* s1.StraightChordAngle: the squared chord length 4.
StraightChordAngle == 4 * AngleScale * AngleScale

InfChordAngle == StraightChordAngle + 2

\* 2 * sin(a / 2), in units of 1 / AngleScale.
ChordLength(a) == SinSeries(a, 2 * AngleScale)

ChordSquared(l) == l * l

\* s1.ChordAngleFromAngle(a): the squared length of the chord that a subtends.
ChordAngleFromAngle(a) ==
    IF a < 0 THEN NegativeChordAngle
    ELSE ChordSquared(ChordLength(IF a > PiAngle THEN PiAngle ELSE a))

\* ChordAngle.Successor(): the next representable chord angle.
Successor(c) ==
    IF c >= StraightChordAngle THEN InfChordAngle
    ELSE IF c < 0 THEN 0
    ELSE c + 1

\* ------------------------------------------------------------------------
\* rgeo.go: Location, New, Build, the snapping distance
\* ------------------------------------------------------------------------

EmptyLocation == [f \in Fields |-> ""]

ErrLocationNotFound == "country not found"

\* SetSnappingDistanceEarth's earthRadiusKM.
EarthRadiusKM == 6371

\* The snapping distance New sets, in kilometers.
DefaultSnapKM == 5

\* s2.NewShapeIndex(): no shapes, nothing pending.
NewShapeIndex == [shapes |-> <<>>, status |-> "fresh", pending |-> 0, cells |-> {}]

\* r.index.Add(&shape{Shape: p, loc: f.Location}): the shape gets the next id and the
\* index is stale until its updates are applied.
IndexAdd(ix, f) == [ix EXCEPT !.shapes = Append(@, f), !.status = "stale"]

RECURSIVE AddFeatures(_, _, _)
AddFeatures(ix, features, i) ==
    IF i > Len(features) THEN ix
    ELSE AddFeatures(IndexAdd(ix, features[i]), features, i + 1)

\* ShapeIndex.maybeApplyUpdates: a stale index takes its pending shapes into its cells.
maybeApplyUpdates(ix) ==
    IF ix.status # "fresh"
    THEN [ix EXCEPT !.cells = @ \cup ((ix.pending + 1)..Len(ix.shapes)),
                    !.pending = Len(ix.shapes),
                    !.status = "fresh"]
    ELSE ix

\* A variant without the successor step.
SnapLimit_NoSuccessor(d, radius) == ChordAngleFromAngle(Sin(Quotient(d, radius)))

\* The DistanceLimit of the options SetSnappingDistanceCustom builds.
SnapLimit(d, radius) == Successor(ChordAngleFromAngle(Sin(Quotient(d, radius))))

\* r.SetSnappingDistanceCustom(d, radius): makeEdgeQuery now captures the new options.
SetSnappingDistanceCustom(r, d, radius) == [r EXCEPT !.limit = SnapLimit(d, radius)]

\* r.SetSnappingDistanceEarth(d)
SetSnappingDistanceEarth(r, d) == SetSnappingDistanceCustom(r, d, EarthRadiusKM)

\* New(datasets...): the features of all datasets, in order.
New(features) ==
    [ SetSnappingDistanceEarth([index |-> NewShapeIndex, limit |-> 0], DefaultSnapKM)
        EXCEPT !.index = AddFeatures(NewShapeIndex, features, 1) ]

\* ------------------------------------------------------------------------
\* rgeo.go: the queries.  Points lie on the equator; a coordinate is a longitude
\* in whole degrees, a point its angle, a polygon an arc [lo, hi] of points.
\* A polygon meets the equator at each end of its arc either in one of its
\* vertices ("vertex") or in the interior of one of its edges; s2 decides on
\* which side of an edge a point on it lies by a symbolic perturbation, which
\* puts the point inside the polygon ("inside") or not ("outside").
\* ------------------------------------------------------------------------

\* pointFromCoord: degrees to a point on the sphere.
pointFromCoord(lon) == (lon * PiAngle) \div 180

\* A variant in which a polygon contains its vertices.
ContainsOpen_Closed(poly, p) ==
    \/ poly.lo < p /\ p < poly.hi
    \/ p = poly.lo /\ poly.loAt # "outside"
    \/ p = poly.hi /\ poly.hiAt # "outside"

\* Containment under s2.VertexModelOpen: no polygon contains its vertices; a point
\* on an edge is on the side the edge crossing test puts it.
ContainsOpen(poly, p) ==
    \/ poly.lo < p /\ p < poly.hi
    \/ p = poly.lo /\ poly.loAt = "inside"
    \/ p = poly.hi /\ poly.hiAt = "inside"

Ids(ix) == [i \in 1..Len(ix.shapes) |-> i]

\* ContainsPointQuery.ContainingShapes(p) on an index whose updates are applied: the
\* indexed shapes that contain p, by ascending id.
ContainingShapes(ix, p) ==
    LET Hit(i) == i \in ix.cells /\ ContainsOpen(ix.shapes[i].Polygon, p)
    IN SelectSeq(Ids(ix), Hit)

\* A variant in which a later non-empty value replaces an earlier one.
firstNonEmpty_LastWins(a, b) == IF b # "" THEN b ELSE a

\* firstNonEmpty(a, b)
firstNonEmpty(a, b) == IF a # "" THEN a ELSE b

\* combineLocations from the i-th shape of res on, l the Location combined so far.
RECURSIVE combineFrom(_, _, _, _)
combineFrom(ix, res, i, l) ==
    IF i > Len(res) THEN l
    ELSE combineFrom(ix, res, i + 1,
             [f \in Fields |-> firstNonEmpty(l[f], ix.shapes[res[i]].Location[f])])

combineLocations(ix, res) == combineFrom(ix, res, 1, EmptyLocation)

\* A variant that needs two containing shapes to succeed.
ReverseGeocodeResult_NeedsTwo(ix, res) ==
    IF Len(res) <= 1
    THEN [index |-> ix, loc |-> EmptyLocation, err |-> ErrLocationNotFound, res |-> res]
    ELSE [index |-> ix, loc |-> combineLocations(ix, res), err |-> "nil", res |-> res]

\* The return of ReverseGeocode for the containing shapes res.
ReverseGeocodeResult(ix, res) ==
    IF Len(res) = 0
    THEN [index |-> ix, loc |-> EmptyLocation, err |-> ErrLocationNotFound, res |-> res]
    ELSE [index |-> ix, loc |-> combineLocations(ix, res), err |-> "nil", res |-> res]

\* ReverseGeocode on an index whose updates are applied.
ReverseGeocodeOn(ix, p) == ReverseGeocodeResult(ix, ContainingShapes(ix, p))

\* A variant that queries the index as it is, without applying pending updates.
ReverseGeocode_NoLazyBuild(r, lon) == ReverseGeocodeOn(r.index, pointFromCoord(lon))

\* r.ReverseGeocode(loc): [index, loc, err, res]; the query applies the index's
\* pending updates.
ReverseGeocode(r, lon) == ReverseGeocodeOn(maybeApplyUpdates(r.index), pointFromCoord(lon))

AbsDiff(a, b) == IF a < b THEN b - a ELSE a - b

Min2(a, b) == IF a < b THEN a ELSE b

\* The chord angle from p to the nearest edge of a polygon (0 in its interior).
EdgeDistance(poly, p) ==
    IF ContainsOpen(poly, p) THEN 0
    ELSE ChordAngleFromAngle(Min2(AbsDiff(p, poly.lo), AbsDiff(p, poly.hi)))

\* The indexed shapes that are nearest to p among those nearer than limit.
NearestOf(ix, p, within) ==
    { i \in within :
        \A j \in within : EdgeDistance(ix.shapes[i].Polygon, p) <= EdgeDistance(ix.shapes[j].Polygon, p) }

\* A variant without the distance limit.
FindEdges_NoLimit(ix, p, limit) == NearestOf(ix, p, ix.cells)

\* r.makeEdgeQuery().FindEdges(target) with MaxResults(1): the shape of the edge
\* found, any of the nearest when several are equally near; none when no edge is
\* nearer than the limit.
FindEdges(ix, p, limit) ==
    NearestOf(ix, p, { i \in ix.cells : EdgeDistance(ix.shapes[i].Polygon, p) < limit })

\* The fallback of ReverseGeocodeSnapping: what it may return after ReverseGeocode
\* returned first with ErrLocationNotFound.
SnapFallback(first, found) ==
    IF found = {}
    THEN { [first EXCEPT !.loc = EmptyLocation, !.err = ErrLocationNotFound] }
    ELSE { [first EXCEPT !.loc = combineLocations(first.index, <<i>>), !.err = "nil", !.res = <<i>>]
             : i \in found }

\* The body of ReverseGeocodeSnapping after its call of ReverseGeocode.
SnappingAfter(first, p, limit) ==
    IF first.err = "nil" THEN { first }
    ELSE SnapFallback(first, FindEdges(first.index, p, limit))

\* r.ReverseGeocodeSnapping(coord): the results it may return.
ReverseGeocodeSnapping(r, lon) ==
    SnappingAfter(ReverseGeocode(r, lon), pointFromCoord(lon), r.limit)

\* ------------------------------------------------------------------------
\* The engine's inputs
\* ------------------------------------------------------------------------

\* Most shapes in a dataset.
MaxShapes == 2

\* Most explicit Build calls.
MaxBuilds == 2

\* A polygon with a vertex on the equator at each end.
Arc(loDeg, hiDeg) ==
    [lo |-> pointFromCoord(loDeg), hi |-> pointFromCoord(hiDeg), loAt |-> "vertex", hiAt |-> "vertex"]

CountryLocation ==
    [f \in Fields |->
        CASE f = "Country" -> "France" [] f = "CountryLong" -> "French Republic"
          [] f = "CountryCode2" -> "FR" [] f = "CountryCode3" -> "FRA"
          [] f = "Continent" -> "Europe" [] f = "Region" -> "Europe"
          [] f = "SubRegion" -> "Western Europe" [] OTHER -> ""]

ProvinceLocation ==
    [f \in Fields |->
        CASE f = "Province" -> "Bretagne" [] f = "ProvinceCode" -> "FR-BRE" [] OTHER -> ""]

\* A neighbouring province that carries its country's name.
NeighbourLocation ==
    [f \in Fields |->
        CASE f = "Country" -> "Spain" [] f = "CountryCode2" -> "ES"
          [] f = "Province" -> "Navarra" [] OTHER -> ""]

\* A country, a province that overlaps it, a neighbour that shares the country's
\* boundary at 30 degrees and overlaps the province, and a shape without any metadata.
ShapePool ==
    { [Location |-> CountryLocation, Polygon |-> Arc(10, 30)],
      [Location |-> ProvinceLocation, Polygon |-> Arc(20, 40)],
      [Location |-> NeighbourLocation, Polygon |-> Arc(30, 50)],
      [Location |-> EmptyLocation, Polygon |-> Arc(10, 30)] }

Datasets == SeqsUpTo(ShapePool, MaxShapes)

\* Longitudes queried: outside every shape, on boundaries, inside one or several shapes.
QueryLons == { 5, 25, 30, 35, 60 }

\* Snapping distances in kilometers on Earth.
EarthDistances == { 0, 5, 600, 3400 }

\* Snapping distances and radii of other spheres: <<d, radius>>.
CustomDistances == { <<1, 2>>, <<4, 1>> }

\* The most recent query under the snapping distance in force, as the caller saw it:
\* the operation, its argument and what came back (res: the shapes it combined).
NoQuery == [op |-> "none", lon |-> 0, loc |-> EmptyLocation, err |-> "nil", res |-> <<>>]

Answer(op, lon, q) == [op |-> op, lon |-> lon, loc |-> q.loc, err |-> q.err, res |-> q.res]

\* The codec's variables while the engine runs.
CodecIdle ==
    /\ fc = <<>> /\ written = [bytes |-> <<>>, ends |-> <<>>] /\ buf = <<>>
    /\ damage = "unwritten" /\ loaded = NotLoaded

\* No goroutine runs a query.
ConcIdle == pc = <<>> /\ call = <<>> /\ out = <<>> /\ edgeQ = <<>>

\* ------------------------------------------------------------------------
\* The engine as a state machine: one Rgeo, used by one caller
\* ------------------------------------------------------------------------

Init ==
    /\ \E features \in Datasets : rgeo = New(features)
    /\ snapArgs = [d |-> 0, radius |-> 0, via |-> "New"]
    /\ builds = 0
    /\ lastQ = NoQuery
    /\ CodecIdle
    /\ ConcIdle
    /\ AuxIdle

\* r.Build()
Build ==
    /\ builds < MaxBuilds
    /\ rgeo' = [rgeo EXCEPT !.index = maybeApplyUpdates(@)]
    /\ builds' = builds + 1
    /\ UNCHANGED <<snapArgs, lastQ, codecVars, concVars, auxVars>>

\* r.SetSnappingDistanceEarth(d)
SetEarth ==
    \E d \in EarthDistances :
        /\ rgeo' = SetSnappingDistanceEarth(rgeo, d)
        /\ snapArgs' = [d |-> d, radius |-> 0, via |-> "Earth"]
        /\ lastQ' = NoQuery
        /\ UNCHANGED <<builds, codecVars, concVars, auxVars>>

\* r.SetSnappingDistanceCustom(d, radius)
SetCustom ==
    \E a \in CustomDistances :
        /\ rgeo' = SetSnappingDistanceCustom(rgeo, a[1], a[2])
        /\ snapArgs' = [d |-> a[1], radius |-> a[2], via |-> "Custom"]
        /\ lastQ' = NoQuery
        /\ UNCHANGED <<builds, codecVars, concVars, auxVars>>

\* r.ReverseGeocode(loc)
Query ==
    \E lon \in QueryLons : \E q \in { ReverseGeocode(rgeo, lon) } :
        /\ rgeo' = [rgeo EXCEPT !.index = q.index]
        /\ lastQ' = Answer("ReverseGeocode", lon, q)
        /\ UNCHANGED <<snapArgs, builds, codecVars, concVars, auxVars>>

\* r.ReverseGeocodeSnapping(coord)
QuerySnapping ==
    \E lon \in QueryLons : \E q \in ReverseGeocodeSnapping(rgeo, lon) :
        /\ rgeo' = [rgeo EXCEPT !.index = q.index]
        /\ lastQ' = Answer("ReverseGeocodeSnapping", lon, q)
        /\ UNCHANGED <<snapArgs, builds, codecVars, concVars, auxVars>>

Next == Build \/ SetEarth \/ SetCustom \/ Query \/ QuerySnapping

Spec == Init /\ [][Next]_vars

\* ------------------------------------------------------------------------
\* Claims about the engine (checked under Spec)
\* ------------------------------------------------------------------------

Shapes == rgeo.index.shapes

\* The shapes whose interior holds the point at lon, indexed or not.
ShapesAround(lon) ==
    { i \in 1..Len(Shapes) : ContainsOpen(Shapes[i].Polygon, pointFromCoord(lon)) }

Range(q) == { q[k] : k \in 1..Len(q) }

\* C4: ReverseGeocode fails with ErrLocationNotFound, and an empty Location, exactly
\* when no shape contains the point; otherwise it returns without error a Location
\* built from all containing shapes: a field is empty only if it is empty in every
\* one of them, and otherwise holds the value one of them has.
C4_NotFoundIffNoContainingShape ==
    lastQ.op = "ReverseGeocode" =>
        /\ (lastQ.err = ErrLocationNotFound) <=> (ShapesAround(lastQ.lon) = {})
        /\ lastQ.err = ErrLocationNotFound => lastQ.loc = EmptyLocation
        /\ ShapesAround(lastQ.lon) # {} =>
              /\ lastQ.err = "nil"
              /\ Range(lastQ.res) = ShapesAround(lastQ.lon)
              /\ \A f \in Fields :
                    IF \A i \in ShapesAround(lastQ.lon) : Shapes[i].Location[f] = ""
                    THEN lastQ.loc[f] = ""
                    ELSE \E i \in ShapesAround(lastQ.lon) :
                            Shapes[i].Location[f] # "" /\ lastQ.loc[f] = Shapes[i].Location[f]

\* ReverseGeocode found a point inside two shapes; another query has failed.
C4_Witness ==
    /\ lastQ.op = "ReverseGeocode"
    /\ lastQ.err = "nil"
    /\ Cardinality(ShapesAround(lastQ.lon)) = 2
    /\ \E lon \in QueryLons : ShapesAround(lon) = {}

\* The angle between the point at lon and the nearest boundary point of shape i.
BoundaryAngle(i, lon) ==
    Min2(AbsDiff(pointFromCoord(lon), Shapes[i].Polygon.lo),
         AbsDiff(pointFromCoord(lon), Shapes[i].Polygon.hi))

\* The shapes with a boundary within the snap threshold limit of the point at lon.
ShapesWithin(lon, limit) ==
    { i \in 1..Len(Shapes) : ChordAngleFromAngle(BoundaryAngle(i, lon)) < limit }

\* C5: ReverseGeocodeSnapping returns what ReverseGeocode returns when that succeeds;
\* when no shape contains the point it returns the Location of one shape alone, a
\* shape whose boundary is nearest to the point, provided that boundary is within the
\* snap threshold in force, and fails with ErrLocationNotFound when no boundary is.
C5_SnappingFallsBackToNearest ==
    lastQ.op = "ReverseGeocodeSnapping" =>
        IF ShapesAround(lastQ.lon) # {}
        THEN /\ lastQ.err = "nil"
             /\ lastQ.loc = ReverseGeocode(rgeo, lastQ.lon).loc
             /\ lastQ.res = ReverseGeocode(rgeo, lastQ.lon).res
        ELSE IF ShapesWithin(lastQ.lon, rgeo.limit) # {}
        THEN /\ lastQ.err = "nil"
             /\ \E i \in ShapesWithin(lastQ.lon, rgeo.limit) :
                   /\ \A j \in 1..Len(Shapes) :
                         BoundaryAngle(i, lastQ.lon) <= BoundaryAngle(j, lastQ.lon)
                   /\ lastQ.loc = Shapes[i].Location
                   /\ lastQ.res = <<i>>
        ELSE lastQ.err = ErrLocationNotFound /\ lastQ.loc = EmptyLocation

\* A point outside two shapes, both within the threshold at different distances, was
\* snapped to the nearer one.
C5_Witness ==
    /\ lastQ.op = "ReverseGeocodeSnapping"
    /\ lastQ.err = "nil"
    /\ ShapesAround(lastQ.lon) = {}
    /\ Cardinality(ShapesWithin(lastQ.lon, rgeo.limit)) = 2
    /\ \E i, j \in 1..Len(Shapes) : BoundaryAngle(i, lastQ.lon) < BoundaryAngle(j, lastQ.lon)

\* The value of field f in the first shape of res that has one, "" when none has.
FirstValue(f, res) ==
    LET has == { k \in 1..Len(res) : Shapes[res[k]].Location[f] # "" } IN
    IF has = {} THEN ""
    ELSE Shapes[res[CHOOSE k \in has : \A m \in has : k <= m]].Location[f]

\* C6: a successful query returns, for each of the ten fields independently, the value
\* of the first shape in the order of the matched shapes whose value is not empty,
\* and the empty string only when every matched shape's value is empty.
C6_FirstNonEmptyPerField ==
    (lastQ.op # "none" /\ lastQ.err = "nil") =>
        /\ lastQ.res # <<>>
        /\ \A f \in Fields : lastQ.loc[f] = FirstValue(f, lastQ.res)

\* A province-only shape matched before a country-only shape: both sets of fields are
\* populated.
C6_Witness ==
    /\ lastQ.op = "ReverseGeocode"
    /\ Len(lastQ.res) = 2
    /\ Shapes[lastQ.res[1]].Location = ProvinceLocation
    /\ Shapes[lastQ.res[2]].Location = CountryLocation
    /\ lastQ.loc.Country = "France"
    /\ lastQ.loc.Province = "Bretagne"

\* The angle between the point at lon and the nearest boundary of any shape.
NearestBoundaryAngle(lon) ==
    CHOOSE a \in { BoundaryAngle(i, lon) : i \in 1..Len(Shapes) } :
        \A j \in 1..Len(Shapes) : a <= BoundaryAngle(j, lon)

\* The radius of the sphere and the distance of a snapping distance call.
RadiusOf(snap) == IF snap.via = "Custom" THEN snap.radius ELSE 6371

DistanceOf(snap) == IF snap.via = "New" THEN 5 ELSE snap.d

\* C7: for a point outside all polygons at distance D > 0 from the nearest boundary,
\* ReverseGeocodeSnapping fails with ErrLocationNotFound when the most recent
\* snapping distance is 0 or below D, and returns a Location when it exceeds D
\* (distances compared as angles: d / radius against the boundary angle).
C7_SnappingFollowsDistance ==
    (/\ lastQ.op = "ReverseGeocodeSnapping"
     /\ Shapes # <<>>
     /\ ShapesAround(lastQ.lon) = {}
     /\ NearestBoundaryAngle(lastQ.lon) > 0) =>
        /\ DistanceOf(snapArgs) * AngleScale < NearestBoundaryAngle(lastQ.lon) * RadiusOf(snapArgs)
              => lastQ.err = ErrLocationNotFound
        /\ DistanceOf(snapArgs) * AngleScale > NearestBoundaryAngle(lastQ.lon) * RadiusOf(snapArgs)
              => lastQ.err = "nil"

ArcSin(x) ==
    LET x2 == (x * x) \div AngleScale
        t3 == (x * x2) \div (6 * AngleScale)
        t5 == (9 * t3 * x2) \div (20 * AngleScale)
        t7 == (25 * t5 * x2) \div (42 * AngleScale)
        t9 == (49 * t7 * x2) \div (72 * AngleScale)
    IN x + t3 + t5 + t7 + t9

Seen(q) == <<q.loc, q.err>>

\* Every query returns on r2 what it returns on r1.
SameAnswers(r1, r2) ==
    \A lon \in QueryLons :
        /\ Seen(ReverseGeocode(r1, lon)) = Seen(ReverseGeocode(r2, lon))
        /\ { Seen(q) : q \in ReverseGeocodeSnapping(r1, lon) }
             = { Seen(q) : q \in ReverseGeocodeSnapping(r2, lon) }

\* C9: no Build call, the first or a repeated one, and no query changes what any
\* query returns (a query on an index never built returns what it returns after
\* Build), and Build on an index already built changes nothing.
C9_AnswersIndependentOfBuild ==
    [][ /\ (rgeo' # rgeo /\ rgeo'.limit = rgeo.limit) => SameAnswers(rgeo, rgeo')
        /\ (builds' # builds /\ rgeo.index.status = "fresh") => rgeo' = rgeo ]_vars

\* A query succeeded on an Rgeo on which Build was never called.
C9_Witness ==
    /\ builds = 0
    /\ lastQ.op = "ReverseGeocode"
    /\ lastQ.err = "nil"
    /\ rgeo.index.status = "fresh"

\* ------------------------------------------------------------------------
\* Concurrent callers: goroutines that query one Rgeo at the same time
\* ------------------------------------------------------------------------

Procs == { 1, 2 }

ConcPool ==
    { [Location |-> CountryLocation, Polygon |-> Arc(10, 30)],
      [Location |-> NeighbourLocation, Polygon |-> Arc(30, 50)] }

ConcDatasets == SeqsUpTo(ConcPool, MaxShapes)

ConcLons == { 5, 25, 60 }

ConcDistances == { 600, 3400 }

NoCall == [op |-> "none", lon |-> 0]

NoResult == [loc |-> EmptyLocation, err |-> "nil", res |-> <<>>]

\* An s2.EdgeQuery that has no target yet.
NewClosestEdgeQuery == [target |-> -1]

\* A variant that hands the same query object to every caller.
makeEdgeQuery_Shared(p) == 1

\* r.makeEdgeQuery(): the object handed to the call of goroutine p, a new one
\* for every call.
makeEdgeQuery(p) == p

\* New, one SetSnappingDistanceEarth call, then goroutines are started.
InitConc ==
    /\ \E features \in ConcDatasets, d \in ConcDistances :
          /\ rgeo = SetSnappingDistanceEarth(New(features), d)
          /\ snapArgs = [d |-> d, radius |-> 0, via |-> "Earth"]
    /\ builds = 0
    /\ lastQ = NoQuery
    /\ CodecIdle
    /\ AuxIdle
    /\ pc = [p \in Procs |-> "idle"]
    /\ call = [p \in Procs |-> NoCall]
    /\ out = [p \in Procs |-> NoResult]
    /\ edgeQ = [p \in Procs |-> NewClosestEdgeQuery]

\* Goroutine p calls ReverseGeocode or ReverseGeocodeSnapping.
Begin(p) ==
    /\ pc[p] = "idle"
    /\ \E op \in { "ReverseGeocode", "ReverseGeocodeSnapping" }, lon \in ConcLons :
          call' = [call EXCEPT ![p] = [op |-> op, lon |-> lon]]
    /\ pc' = [pc EXCEPT ![p] = "contains"]
    /\ UNCHANGED <<out, edgeQ, rgeo, snapArgs, builds, lastQ, codecVars, auxVars>>

\* Goroutine p runs r.ReverseGeocode: the containment query, which applies the
\* index's pending updates if there are any.
Contains(p) ==
    /\ pc[p] = "contains"
    /\ \E q \in { ReverseGeocode(rgeo, call[p].lon) } :
          /\ rgeo' = [rgeo EXCEPT !.index = q.index]
          /\ out' = [out EXCEPT ![p] = [loc |-> q.loc, err |-> q.err, res |-> q.res]]
          /\ pc' = [pc EXCEPT ![p] =
                      IF call[p].op = "ReverseGeocodeSnapping" /\ q.err = ErrLocationNotFound
                      THEN "makeEdgeQuery" ELSE "done"]
    /\ UNCHANGED <<call, edgeQ, snapArgs, builds, lastQ, codecVars, auxVars>>

\* Goroutine p gets a query object from r.makeEdgeQuery(), and FindEdges stores
\* its target in it.
MakeQuery(p) ==
    /\ pc[p] = "makeEdgeQuery"
    /\ edgeQ' = [edgeQ EXCEPT ![makeEdgeQuery(p)] = [target |-> pointFromCoord(call[p].lon)]]
    /\ pc' = [pc EXCEPT ![p] = "FindEdges"]
    /\ UNCHANGED <<call, out, rgeo, snapArgs, builds, lastQ, codecVars, auxVars>>

\* FindEdges searches for the target stored in the query object; goroutine p
\* combines the Location of the shape found.
FindEdgesStep(p) ==
    /\ pc[p] = "FindEdges"
    /\ \E q \in SnapFallback([index |-> rgeo.index, loc |-> out[p].loc,
                              err |-> out[p].err, res |-> out[p].res],
                             FindEdges(rgeo.index, edgeQ[makeEdgeQuery(p)].target, rgeo.limit)) :
          out' = [out EXCEPT ![p] = [loc |-> q.loc, err |-> q.err, res |-> q.res]]
    /\ pc' = [pc EXCEPT ![p] = "done"]
    /\ UNCHANGED <<call, edgeQ, rgeo, snapArgs, builds, lastQ, codecVars, auxVars>>

\* The call of goroutine p returns; its result and its query object are dropped.
Return(p) ==
    /\ pc[p] = "done"
    /\ pc' = [pc EXCEPT ![p] = "idle"]
    /\ call' = [call EXCEPT ![p] = NoCall]
    /\ out' = [out EXCEPT ![p] = NoResult]
    /\ edgeQ' = [edgeQ EXCEPT ![p] = NewClosestEdgeQuery]
    /\ UNCHANGED <<rgeo, snapArgs, builds, lastQ, codecVars, auxVars>>

\* r.Build(), called while goroutines may be running.
BuildConc ==
    /\ builds < MaxBuilds
    /\ rgeo' = [rgeo EXCEPT !.index = maybeApplyUpdates(@)]
    /\ builds' = builds + 1
    /\ UNCHANGED <<snapArgs, lastQ, codecVars, concVars, auxVars>>

NextConc ==
    \/ BuildConc
    \/ \E p \in Procs : Begin(p)
    \/ \E p \in Procs : Contains(p)
    \/ \E p \in Procs : MakeQuery(p)
    \/ \E p \in Procs : FindEdgesStep(p)
    \/ \E p \in Procs : Return(p)

SpecConc == InitConc /\ [][NextConc]_vars

\* The result goroutine p holds is one the same call returns when it runs alone.
ReturnsAsAlone(p) ==
    IF call[p].op = "ReverseGeocode"
    THEN <<out[p].loc, out[p].err>> = Seen(ReverseGeocode(rgeo, call[p].lon))
    ELSE <<out[p].loc, out[p].err>> \in { Seen(q) : q \in ReverseGeocodeSnapping(rgeo, call[p].lon) }

\* Everything that belongs to the call of goroutine p.
Own(p) == <<pc[p], call[p], out[p], edgeQ[p]>>

\* C10: once the index is built, a step of a query of one goroutine leaves the Rgeo
\* and everything that belongs to the calls of the other goroutines as it was, and
\* every finished call holds the result it returns when run alone.
C10_ConcurrentQueriesShareNothing ==
    /\ [](\A p \in Procs : pc[p] = "done" => ReturnsAsAlone(p))
    /\ [][ rgeo.index.status = "fresh" =>
              /\ rgeo' = rgeo
              /\ \A p \in Procs : Own(p)' # Own(p) =>
                    \A o \in Procs \ {p} : Own(o)' = Own(o) ]_vars

\* After Build, two snapping calls for different points were under way at once, each
\* with a target in its query object, and one has finished with a Location.
C10_Witness ==
    /\ builds >= 1
    /\ call[1].op = "ReverseGeocodeSnapping" /\ call[2].op = "ReverseGeocodeSnapping"
    /\ call[1].lon # call[2].lon
    /\ pc[1] = "FindEdges"
    /\ pc[2] = "done" /\ out[2].err = "nil"
    /\ edgeQ[1].target # edgeQ[2].target /\ edgeQ[2].target # -1

\* ------------------------------------------------------------------------
\* Polygon construction (rgeo.go): from a GeoJSON geometry to an s2.Polygon.
\* A coordinate is <<x, y>>, longitude and latitude in whole degrees; a ring is
\* a sequence of coordinates, a polygon a sequence of rings.  A point of the
\* sphere is its latitude and longitude in degrees, the longitude in
\* -179..180 and 0 at the poles; a loop is its sequence of vertices, its
\* interior to the left of its edges.
\* ------------------------------------------------------------------------

\* The longitude in -179..180 of an angle in degrees.
NormalizeLng(x) == ((x + 179) % 360) - 179

\* pointFromCoord: s2.PointFromLatLng(s2.LatLngFromDegrees(r.Y(), r.X())).
PointOfCoord(c) ==
    [lat |-> c[2], lng |-> IF c[2] = 90 \/ c[2] = -90 THEN 0 ELSE NormalizeLng(c[1])]

\* One term of the shoelace sum of isClockwise: coordinates i and (i + 1) % n,
\* counted from 0.
ShoelaceTerm(r, i) ==
    LET p1 == r[i + 1]
        p2 == r[((i + 1) % Len(r)) + 1]
    IN (p2[1] - p1[1]) * (p1[2] + p2[2])

RECURSIVE ShoelaceFrom(_, _)
ShoelaceFrom(r, i) == IF i >= Len(r) THEN 0 ELSE ShoelaceTerm(r, i) + ShoelaceFrom(r, i + 1)

\* isClockwise(r)
isClockwise(r) == ShoelaceFrom(r, 0) > 0

\* s2.LoopFromPoints(pts)
LoopFromPoints(pts) == [vertices |-> pts]

\* A variant that keeps the closing coordinate.
loopFromRing_KeepsClosing(r, reverse) ==
    LoopFromPoints([j \in 1..Len(r) |-> PointOfCoord(IF reverse THEN r[Len(r) - j + 1] ELSE r[j])])

\* loopFromRing(r, reverse): pts[i] is Coord(n - 1 - i) when reversed, Coord(i)
\* otherwise, for i in 0..n-2.
loopFromRing(r, reverse) ==
    LoopFromPoints([j \in 1..(Len(r) - 1) |->
                      PointOfCoord(IF reverse THEN r[Len(r) - j + 1] ELSE r[j])])

\* The way from longitude a to longitude b along the shorter arc, in degrees.
LngDelta(a, b) == NormalizeLng(b - a)

\* The longitudes of the vertices from the i-th on, each continued from the one
\* before it (at) along the shorter arc.
RECURSIVE UnwrappedFrom(_, _, _)
UnwrappedFrom(vs, i, at) ==
    IF i > Len(vs) THEN <<>>
    ELSE <<at>> \o UnwrappedFrom(vs, i + 1,
                     IF i < Len(vs) THEN at + LngDelta(vs[i].lng, vs[i + 1].lng) ELSE at)

Unwrapped(vs) == UnwrappedFrom(vs, 1, vs[1].lng)

\* The signed area between the loop's edges and the equator: positive when the
\* loop runs clockwise around the region its edges enclose.
RECURSIVE SignedAreaFrom(_, _)
SignedAreaFrom(vs, i) ==
    IF i > Len(vs) THEN 0
    ELSE LngDelta(vs[i].lng, vs[(i % Len(vs)) + 1].lng) * (vs[i].lat + vs[(i % Len(vs)) + 1].lat)
           + SignedAreaFrom(vs, i + 1)

\* The interior of a loop that runs clockwise around the region its edges enclose
\* is everything else: it holds both poles.
ContainsPoles(l) == SignedAreaFrom(l.vertices, 1) > 0

MinOf(S) == CHOOSE x \in S : \A y \in S : x <= y

MaxOf(S) == CHOOSE x \in S : \A y \in S : x >= y

\* l.RectBound(): the latitudes and the span of longitudes of the loop, the whole
\* sphere for a loop that holds the poles.  (The bulge of an edge beyond the
\* latitudes of its ends is left out.)
RectBound(l) ==
    IF ContainsPoles(l)
    THEN [latLo |-> -90, latHi |-> 90, lngSpan |-> 360]
    ELSE [latLo |-> MinOf({ l.vertices[i].lat : i \in 1..Len(l.vertices) }),
          latHi |-> MaxOf({ l.vertices[i].lat : i \in 1..Len(l.vertices) }),
          lngSpan |-> MaxOf({ Unwrapped(l.vertices)[i] : i \in 1..Len(l.vertices) })
                        - MinOf({ Unwrapped(l.vertices)[i] : i \in 1..Len(l.vertices) })]

\* math.Cos(x), x in angle units.
Cos(x) == Sin(x + PiAngle \div 2)

\* Half-degrees to angle units.
HalfDegrees(h) == (h * PiAngle) \div 360

\* The cosine of the angle between the center of the rectangle b and its corners
\* at latitude lat, in units of 1 / AngleScale.
CornerCosine(b, lat) ==
    (Sin(HalfDegrees(b.latLo + b.latHi)) * Sin(HalfDegrees(2 * lat))) \div AngleScale
    + (((Cos(HalfDegrees(b.latLo + b.latHi)) * Cos(HalfDegrees(2 * lat))) \div AngleScale)
          * Cos(HalfDegrees(b.lngSpan))) \div AngleScale

\* The angle of the cap around the nearer pole that covers the rectangle, in degrees.
PoleAngle(b) == IF b.latHi + b.latLo < 0 THEN 90 + b.latHi ELSE 90 - b.latLo

\* l.CapBound().Radius().Degrees() > 90: Rect.CapBound takes the smaller of the cap
\* around a pole and, for a rectangle spanning at most 180 degrees of longitude,
\* the cap around the rectangle's center through its corners.
CapRadiusOver90(l) ==
    LET b == RectBound(l) IN
    /\ PoleAngle(b) > 90
    /\ b.lngSpan <= 180 => (CornerCosine(b, b.latLo) < 0 \/ CornerCosine(b, b.latHi) < 0)

RECURSIVE Reversed(_)
Reversed(q) == IF q = <<>> THEN <<>> ELSE Reversed(Tail(q)) \o <<Head(q)>>

\* l.Invert(): the vertices in reverse order, the interior on the other side.
Invert(l) == [vertices |-> Reversed(l.vertices)]

\* A variant that never inverts.
CapChecked_Never(l) == l

\* if l.CapBound().Radius().Degrees() > 90 { l.Invert() }
CapChecked(l) == IF CapRadiusOver90(l) THEN Invert(l) ELSE l

\* The checks of loopSliceFromPolygon on one ring.
RingError(r) ==
    IF Len(r) < 4 THEN "can't convert ring with less than 4 points"
    ELSE IF r[1] # r[Len(r)] THEN "last coordinate not same as first"
    ELSE "nil"

\* loopSliceFromPolygon(p), from ring i on.
RECURSIVE LoopSliceFrom(_, _, _)
LoopSliceFrom(p, i, loops) ==
    IF i > Len(p) THEN [loops |-> loops, err |-> "nil"]
    ELSE IF RingError(p[i]) # "nil" THEN [loops |-> <<>>, err |-> RingError(p[i])]
    ELSE LoopSliceFrom(p, i + 1, Append(loops, CapChecked(loopFromRing(p[i], isClockwise(p[i])))))

loopSliceFromPolygon(p) == LoopSliceFrom(p, 1, <<>>)

\* A nil *s2.Polygon.
NilPolygon == [nil |-> TRUE, loops |-> <<>>]

\* s2.PolygonFromLoops(loops)
PolygonFromLoops(loops) == [nil |-> FALSE, loops |-> loops]

\* polygonFromPolygon(p): a polygon even when the rings were refused.
polygonFromPolygon(p) ==
    [polygon |-> PolygonFromLoops(loopSliceFromPolygon(p).loops), err |-> loopSliceFromPolygon(p).err]

\* polygonFromMultiPolygon(p), from member i on.
RECURSIVE MultiFrom(_, _, _)
MultiFrom(mp, i, loops) ==
    IF i > Len(mp) THEN [polygon |-> PolygonFromLoops(loops), err |-> "nil"]
    ELSE IF loopSliceFromPolygon(mp[i]).err # "nil"
         THEN [polygon |-> NilPolygon, err |-> loopSliceFromPolygon(mp[i]).err]
    ELSE MultiFrom(mp, i + 1, loops \o loopSliceFromPolygon(mp[i]).loops)

polygonFromMultiPolygon(mp) == MultiFrom(mp, 1, <<>>)

\* The switch of polygonFromGeometry on the type of g.
ByGeometryType(g) ==
    IF g.type = "Polygon" THEN polygonFromPolygon(g.rings)
    ELSE IF g.type = "MultiPolygon" THEN polygonFromMultiPolygon(g.polygons)
    ELSE [polygon |-> NilPolygon, err |-> "needs Polygon or MultiPolygon"]

\* A variant that returns what the switch produced.
WithoutPolygonOnError_Kept(res) == res

\* if err != nil { return nil, err }
WithoutPolygonOnError(res) == IF res.err # "nil" THEN [polygon |-> NilPolygon, err |-> res.err] ELSE res

\* polygonFromGeometry(g)
polygonFromGeometry(g) == WithoutPolygonOnError(ByGeometryType(g))

\* ------------------------------------------------------------------------
\* Inputs of the conversion
\* ------------------------------------------------------------------------

\* Most rings in a polygon.
MaxRings == 2

\* A counter-clockwise square.
SquareRing == << <<0, 0>>, <<10, 0>>, <<10, 10>>, <<0, 10>>, <<0, 0>> >>

\* A triangle wound clockwise.
BackwardsRing == << <<20, 0>>, <<20, 10>>, <<30, 0>>, <<20, 0>> >>

\* A counter-clockwise square across the antimeridian: its shoelace sum is positive.
AntimeridianRing == << <<170, 0>>, <<-170, 0>>, <<-170, 10>>, <<170, 10>>, <<170, 0>> >>

\* A counter-clockwise ring around two thirds of the globe between 60 S and 60 N.
WideRing ==
    << <<-120, -60>>, <<0, -60>>, <<120, -60>>, <<120, 60>>, <<0, 60>>, <<-120, 60>>, <<-120, -60>> >>

\* A closed ring of three coordinates.
ShortRing == << <<0, 0>>, <<10, 0>>, <<0, 0>> >>

\* A ring of four coordinates that does not return to its first.
OpenRing == << <<0, 0>>, <<10, 0>>, <<10, 10>>, <<0, 10>> >>

RingPool == { SquareRing, BackwardsRing, AntimeridianRing, WideRing, ShortRing, OpenRing }

GeomPolygons == SeqsUpTo(RingPool, MaxRings)

\* MultiPolygons of one member, and of two members of one ring each.
GeomMultiPolygons ==
    { <<p>> : p \in GeomPolygons } \cup { << <<r1>>, <<r2>> >> : r1 \in RingPool, r2 \in RingPool }

Geometries ==
    { [type |-> "Polygon", rings |-> p, polygons |-> <<>>] : p \in GeomPolygons }
    \cup { [type |-> "MultiPolygon", rings |-> <<>>, polygons |-> mp] : mp \in GeomMultiPolygons }
    \cup { [type |-> "Point", rings |-> <<>>, polygons |-> <<>>] }

NotConverted == [polygon |-> NilPolygon, err |-> "not called"]

NoRingLoop == [ring |-> <<>>, reverse |-> FALSE, loop |-> LoopFromPoints(<<>>)]

RECURSIVE Flatten(_)
Flatten(mp) == IF mp = <<>> THEN <<>> ELSE Head(mp) \o Flatten(Tail(mp))

\* The rings of a geometry, in the order in which they are converted.
RingsOf(g) == IF g.type = "MultiPolygon" THEN Flatten(g.polygons) ELSE g.rings

\* ------------------------------------------------------------------------
\* Location strings from GeoJSON properties (rgeo.go).  A string is a sequence
\* of characters; a property is absent, a string, or a value of another type.
\* ------------------------------------------------------------------------

Absent == [kind |-> "absent", s |-> <<>>]

Number == [kind |-> "number", s |-> <<>>]

Str(s) == [kind |-> "string", s |-> s]

PropKeys ==
    { "ADMIN", "admin", "FORMAL_EN", "ISO_A2", "ISO_A2_EH", "ISO_A3", "ISO_A3_EH", "CONTINENT",
      "REGION_UN", "SUBREGION", "name", "iso_3166_2", "name_conve" }

\* getPropertyString(m, keys...): s, ok = m[k].(string) for each key until ok; a
\* failed assertion leaves s empty.
RECURSIVE PropertyStringFrom(_, _, _)
PropertyStringFrom(m, keys, i) ==
    IF i > Len(keys) THEN <<>>
    ELSE IF m[keys[i]].kind = "string" THEN m[keys[i]].s
    ELSE PropertyStringFrom(m, keys, i + 1)

getPropertyString(m, keys) == PropertyStringFrom(m, keys, 1)

\* strings.TrimSuffix(s, "2")
TrimSuffix2(s) == IF Len(s) >= 1 /\ s[Len(s)] = "2" THEN SubSeq(s, 1, Len(s) - 1) ELSE s

\* getLocationStrings(p)
getLocationStrings(p) ==
    [f \in Fields |->
        CASE f = "Country" -> getPropertyString(p, <<"ADMIN", "admin">>)
          [] f = "CountryLong" -> getPropertyString(p, <<"FORMAL_EN">>)
          [] f = "CountryCode2" -> getPropertyString(p, <<"ISO_A2_EH">>)
          [] f = "CountryCode3" -> getPropertyString(p, <<"ISO_A3_EH">>)
          [] f = "Continent" -> getPropertyString(p, <<"CONTINENT">>)
          [] f = "Region" -> getPropertyString(p, <<"REGION_UN">>)
          [] f = "SubRegion" -> getPropertyString(p, <<"SUBREGION">>)
          [] f = "Province" -> getPropertyString(p, <<"name">>)
          [] f = "ProvinceCode" -> getPropertyString(p, <<"iso_3166_2">>)
          [] f = "City" -> TrimSuffix2(getPropertyString(p, <<"name_conve">>))]

\* Every key with a string of its own.
FullProperties == [k \in PropKeys |-> Str(<<"v", k>>)]

NoProperties == [k \in PropKeys |-> Absent]

\* Full properties with one key changed, and properties of one key alone.
PropertyMaps ==
    { FullProperties, NoProperties }
    \cup { [FullProperties EXCEPT ![k] = v] :
             k \in PropKeys, v \in { Absent, Number, Str(<<>>), Str(<<"x", "2">>) } }
    \cup { [NoProperties EXCEPT ![k] = Str(<<"v", k>>)] : k \in PropKeys }

\* GeoJSON features: every geometry without properties, and every property map on
\* one polygon.
GeoFeatures ==
    { [Geometry |-> g, Properties |-> NoProperties] : g \in Geometries }
    \cup { [Geometry |-> [type |-> "Polygon", rings |-> <<SquareRing>>, polygons |-> <<>>],
            Properties |-> m] : m \in PropertyMaps }

NotExtracted == [called |-> FALSE, loc |-> EmptyBytesLocation]

\* ------------------------------------------------------------------------
\* The conversion as a state machine: one GeoJSON feature, converted as
\* LoadGeoJSON converts it
\* ------------------------------------------------------------------------

InitGeoJSON ==
    /\ feature \in GeoFeatures
    /\ converted = NotConverted
    /\ ringLoop = NoRingLoop
    /\ extracted = NotExtracted
    /\ receiver = "none" /\ decoded = "none"
    /\ CodecIdle
    /\ GeoIdle

\* polygonFromGeometry(f.Geometry)
Convert ==
    /\ converted = NotConverted
    /\ converted' = polygonFromGeometry(feature.Geometry)
    /\ UNCHANGED <<feature, ringLoop, extracted, receiver, decoded, codecVars, geoVars>>

\* loopFromRing(r, reverse) on a ring that passed the checks of loopSliceFromPolygon.
RingToLoop ==
    /\ ringLoop = NoRingLoop
    /\ \E i \in 1..Len(RingsOf(feature.Geometry)), reverse \in BOOLEAN :
          /\ RingError(RingsOf(feature.Geometry)[i]) = "nil"
          /\ ringLoop' = [ring |-> RingsOf(feature.Geometry)[i], reverse |-> reverse,
                          loop |-> loopFromRing(RingsOf(feature.Geometry)[i], reverse)]
    /\ UNCHANGED <<feature, converted, extracted, receiver, decoded, codecVars, geoVars>>

\* getLocationStrings(f.Properties)
Extract ==
    /\ ~extracted.called
    /\ extracted' = [called |-> TRUE, loc |-> getLocationStrings(feature.Properties)]
    /\ UNCHANGED <<feature, converted, ringLoop, receiver, decoded, codecVars, geoVars>>

NextGeoJSON == Convert \/ RingToLoop \/ Extract

SpecGeoJSON == InitGeoJSON /\ [][NextGeoJSON]_vars

\* ------------------------------------------------------------------------
\* Claims about the conversion (checked under SpecGeoJSON)
\* ------------------------------------------------------------------------

\* A ring with fewer than 4 coordinates, or whose first and last coordinates differ.
Malformed(r) == Len(r) < 4 \/ r[1] # r[Len(r)]

WasConverted == converted # NotConverted

\* C11: for a Polygon or MultiPolygon in which some ring, of any member and at any
\* position, has fewer than 4 coordinates or does not end on its first coordinate,
\* polygonFromGeometry returns an error and nil instead of a polygon.
C11_MalformedRingRejected ==
    (/\ WasConverted
     /\ feature.Geometry.type \in { "Polygon", "MultiPolygon" }
     /\ \E i \in 1..Len(RingsOf(feature.Geometry)) : Malformed(RingsOf(feature.Geometry)[i]))
    => (converted.err # "nil" /\ converted.polygon = NilPolygon)

\* A Polygon whose first ring is valid and whose second ring is not closed was refused.
C11_Witness ==
    /\ WasConverted
    /\ feature.Geometry.type = "Polygon"
    /\ Len(feature.Geometry.rings) = 2
    /\ ~Malformed(feature.Geometry.rings[1])
    /\ feature.Geometry.rings[2] = OpenRing
    /\ converted.polygon = NilPolygon
    /\ converted.err = "last coordinate not same as first"

\* The points of the coordinates of q, in order.
PointsOf(q) == [j \in 1..Len(q) |-> PointOfCoord(q[j])]

\* The coordinates of q without the last one.
WithoutLast(q) == SubSeq(q, 1, Len(q) - 1)

\* The vertices a loop is to have for ring r: the ring without its closing
\* coordinate, or the reversed ring without its closing coordinate.
RingVertices(r, reversed) ==
    IF reversed THEN PointsOf(WithoutLast(Reversed(r))) ELSE PointsOf(WithoutLast(r))

\* The shoelace sum of ring r: the sum of (x2 - x1) * (y1 + y2) over consecutive
\* coordinates, the last paired with the first.
ShoelaceSum(r) ==
    LET Term(i) == (r[(i % Len(r)) + 1][1] - r[i][1]) * (r[i][2] + r[(i % Len(r)) + 1][2])
        Sum[i \in 0..Len(r)] == IF i = 0 THEN 0 ELSE Sum[i - 1] + Term(i)
    IN Sum[Len(r)]

\* A ring that fits in a hemisphere: wound one way or the other, its loop has a
\* bounding cap of at most 90 degrees.
WithinHemisphere(r) ==
    ~CapRadiusOver90(LoopFromPoints(RingVertices(r, FALSE)))
      \/ ~CapRadiusOver90(LoopFromPoints(RingVertices(r, TRUE)))

\* C12 (as amended): each loop that loopSliceFromPolygon produces is built in reversed
\* vertex order when the ring's shoelace sum is positive, and is inverted afterwards
\* exactly when its bounding cap radius exceeds 90 degrees; for a ring that fits in a
\* hemisphere the loop produced has a bounding cap of at most 90 degrees, also when
\* the shoelace test picked the wrong winding.
C12_HemisphereCorrection ==
    (WasConverted /\ converted.err = "nil") =>
        /\ Len(converted.polygon.loops) = Len(RingsOf(feature.Geometry))
        /\ \A i \in 1..Len(RingsOf(feature.Geometry)) :
              \E built \in { LoopFromPoints(RingVertices(RingsOf(feature.Geometry)[i],
                                                        ShoelaceSum(RingsOf(feature.Geometry)[i]) > 0)) } :
                 /\ converted.polygon.loops[i] =
                       IF CapRadiusOver90(built) THEN Invert(built) ELSE built
                 /\ WithinHemisphere(RingsOf(feature.Geometry)[i])
                       => ~CapRadiusOver90(converted.polygon.loops[i])

\* The square across the antimeridian was converted: its shoelace sum is positive
\* though it is wound counter-clockwise, the loop built in reversed order has a cap
\* of more than 90 degrees, and the loop produced is its inversion.
C12_Witness ==
    /\ WasConverted /\ converted.err = "nil"
    /\ feature.Geometry.type = "Polygon"
    /\ feature.Geometry.rings = <<AntimeridianRing>>
    /\ ShoelaceSum(AntimeridianRing) > 0
    /\ CapRadiusOver90(LoopFromPoints(RingVertices(AntimeridianRing, TRUE)))
    /\ converted.polygon.loops[1] = Invert(LoopFromPoints(RingVertices(AntimeridianRing, TRUE)))
    /\ ~CapRadiusOver90(converted.polygon.loops[1])

\* C12 as stated: every loop produced by loopSliceFromPolygon has a bounding cap of
\* angular radius at most 90 degrees.
C12_EveryLoopWithinHemisphere ==
    (WasConverted /\ converted.err = "nil") =>
        \A i \in 1..Len(converted.polygon.loops) : ~CapRadiusOver90(converted.polygon.loops[i])

\* C13: for an accepted ring of n coordinates, the loop loopFromRing constructs has
\* exactly n - 1 vertices, at least 3: the ring's coordinates without the closing
\* coordinate in their order when not reversed, and the reversed ring's coordinates
\* without its closing coordinate when reversed.
C13_ClosingCoordinateDroppedOnce ==
    ringLoop # NoRingLoop =>
        /\ Len(ringLoop.loop.vertices) = Len(ringLoop.ring) - 1
        /\ Len(ringLoop.loop.vertices) >= 3
        /\ ringLoop.loop.vertices = RingVertices(ringLoop.ring, ringLoop.reverse)

\* A ring of seven coordinates was made a loop of six distinct vertices, reversed.
C13_Witness ==
    /\ ringLoop # NoRingLoop
    /\ ringLoop.reverse
    /\ Len(ringLoop.ring) = 7
    /\ Cardinality({ ringLoop.loop.vertices[j] : j \in 1..Len(ringLoop.loop.vertices) }) = 6
    /\ ringLoop.loop.vertices[1] = PointOfCoord(ringLoop.ring[7])
    /\ ringLoop.loop.vertices[6] = PointOfCoord(ringLoop.ring[2])

\* ------------------------------------------------------------------------
\* Points on boundaries: the engine over polygons that share a vertex or an edge
\* ------------------------------------------------------------------------

\* A polygon with an edge across the equator at each end; the crossing test puts
\* the points of those edges on their western or on their eastern side.
Box(loDeg, hiDeg, side) ==
    [lo |-> pointFromCoord(loDeg), hi |-> pointFromCoord(hiDeg),
     loAt |-> IF side = "east" THEN "inside" ELSE "outside",
     hiAt |-> IF side = "west" THEN "inside" ELSE "outside"]

\* Two polygons that share the vertex at 30 degrees, and two that share the edge
\* across the equator at 30 degrees.
BoundaryPool(side) ==
    { [Location |-> CountryLocation, Polygon |-> Arc(10, 30)],
      [Location |-> NeighbourLocation, Polygon |-> Arc(30, 50)],
      [Location |-> CountryLocation, Polygon |-> Box(10, 30, side)],
      [Location |-> NeighbourLocation, Polygon |-> Box(30, 50, side)] }

BoundaryDatasets == UNION { SeqsUpTo(BoundaryPool(side), MaxShapes) : side \in { "west", "east" } }

InitBoundary ==
    /\ \E features \in BoundaryDatasets : rgeo = New(features)
    /\ snapArgs = [d |-> 0, radius |-> 0, via |-> "New"]
    /\ builds = 0
    /\ lastQ = NoQuery
    /\ CodecIdle
    /\ ConcIdle
    /\ AuxIdle

SpecBoundary == InitBoundary /\ [][Next]_vars

\* The shapes that have a vertex at the point at lon.
VertexAt(lon) ==
    { i \in 1..Len(Shapes) :
        \/ Shapes[i].Polygon.lo = pointFromCoord(lon) /\ Shapes[i].Polygon.loAt = "vertex"
        \/ Shapes[i].Polygon.hi = pointFromCoord(lon) /\ Shapes[i].Polygon.hiAt = "vertex" }

\* The shapes that end, respectively begin, in an edge through the point at lon.
EdgeWestOf(lon) ==
    { i \in 1..Len(Shapes) :
        Shapes[i].Polygon.hi = pointFromCoord(lon) /\ Shapes[i].Polygon.hiAt # "vertex" }

EdgeEastOf(lon) ==
    { i \in 1..Len(Shapes) :
        Shapes[i].Polygon.lo = pointFromCoord(lon) /\ Shapes[i].Polygon.loAt # "vertex" }

StringAt(m, k) == IF m[k].kind = "string" THEN m[k].s ELSE <<>>

\* The Location the package documentation of datagen describes.
DocumentedLocation(m) ==
    [f \in Fields |->
        CASE f = "Country" -> IF m["ADMIN"].kind = "string" THEN m["ADMIN"].s ELSE StringAt(m, "admin")
          [] f = "CountryLong" -> StringAt(m, "FORMAL_EN")
          [] f = "CountryCode2" -> StringAt(m, "ISO_A2")
          [] f = "CountryCode3" -> StringAt(m, "ISO_A3")
          [] f = "Continent" -> StringAt(m, "CONTINENT")
          [] f = "Region" -> StringAt(m, "REGION_UN")
          [] f = "SubRegion" -> StringAt(m, "SUBREGION")
          [] f = "Province" -> StringAt(m, "name")
          [] f = "ProvinceCode" -> StringAt(m, "iso_3166_2")
          [] f = "City" -> StringAt(m, "name_conve")]

\* C15 as stated: the Location extracted from the properties of a feature holds,
\* in each field, the string at the documented key of that field (Country from
\* "ADMIN" or else "admin", CountryCode2 from "ISO_A2", CountryCode3 from "ISO_A3",
\* City from "name_conve", ...), and the empty string when the key is absent or
\* holds a value that is not a string.
C15_LocationFromDocumentedKeys ==
    extracted.called => extracted.loc = DocumentedLocation(feature.Properties)

\* The part of C15 the two country codes do not touch: every other field but City
\* holds the string at its documented key.
C15_OtherFieldsFromDocumentedKeys ==
    extracted.called =>
        \A f \in Fields \ { "CountryCode2", "CountryCode3", "City" } :
            extracted.loc[f] = DocumentedLocation(feature.Properties)[f]

\* ------------------------------------------------------------------------
\* Feature.Decode on a receiver that is not fresh: one record is written,
\* cut short or not, and decoded into a Feature that already holds values
\* ------------------------------------------------------------------------

\* The Feature Decode is called on: the zero value, as in LoadEncoded, and Features
\* that hold a Location and a Polygon from before.
Receivers ==
    { ZeroFeature,
      [Location |-> LocWith({"Country"}, <<88>>), Polygon |-> <<Triangle>>],
      [Location |-> DistinctLocation, Polygon |-> <<Triangle, Hole>>] }

\* Nothing decoded yet; after the call, its error, the stream it read and the receiver
\* as it was before.
NotDecoded == [called |-> FALSE, err |-> NoError, before |-> ZeroFeature, bytes |-> <<>>]

InitDecode ==
    /\ fc \in { <<f>> : f \in Features }
    /\ written = [bytes |-> <<>>, ends |-> <<>>]
    /\ buf = <<>>
    /\ damage = "unwritten"
    /\ loaded = NotLoaded
    /\ receiver \in Receivers
    /\ decoded = NotDecoded
    /\ feature = "none" /\ converted = "none" /\ ringLoop = "none" /\ extracted = "none"
    /\ GeoIdle

\* err := f.Decode(r) with f the receiver and r at the start of the stream.
DecodeInto ==
    /\ damage # "unwritten"
    /\ ~decoded.called
    /\ \E d \in { FeatureDecode(receiver, buf, 0) } :
          /\ receiver' = d.f
          /\ decoded' = [called |-> TRUE, err |-> d.err, before |-> receiver, bytes |-> buf]
    /\ UNCHANGED <<feature, converted, ringLoop, extracted, codecVars, geoVars>>

NextDecode == Encode \/ Truncate \/ DecodeInto

SpecDecode == InitDecode /\ [][NextDecode]_vars

\* ------------------------------------------------------------------------
\* Claims about Feature.Decode (checked under SpecDecode)
\* ------------------------------------------------------------------------

\* C16 as stated: after a successful Decode the receiver's Location and Polygon
\* depend only on the bytes read, not on the values the receiver held before the
\* call: they are what Decode of the same bytes leaves in a zero Feature, so a
\* field the record omits is empty in the receiver whatever it held before.
C16_DecodeOverwritesReceiver ==
    (decoded.called /\ decoded.err = NoError) =>
        receiver = FeatureDecode(ZeroFeature, decoded.bytes, 0).f

\* The part of C16 that holds: the Polygon of the receiver after a successful Decode
\* is the Polygon of the bytes read, whatever Polygon the receiver held before.
C16_PolygonOverwritten ==
    (decoded.called /\ decoded.err = NoError) =>
        receiver.Polygon = FeatureDecode(ZeroFeature, decoded.bytes, 0).f.Polygon

====
